---- MODULE Spec2Model ----
(***************************************************************************)
(* Model of app.py, the Streamlit photo sharing script.                    *)
(*                                                                         *)
(* Streamlit executes the script top to bottom once per user interaction.  *)
(* A script run goes through the password gate and then through the parts  *)
(* of the page, each of which reads the bucket on its own: the handler of  *)
(* the Upload button, the album preview, the Browse tab with its listings  *)
(* and the ZIP export.  One action of this model is one such part, run by  *)
(* one browser session behind the gate.  The state that survives a script  *)
(* run is the session's `authed` flag and the content of the storage       *)
(* bucket; `run` records what the last step was given, did and showed.     *)
(*                                                                         *)
(* Strings that the script assembles into bucket keys (user, album, file   *)
(* name) are sequences of one-character strings, so that the "/" inside an *)
(* album name is visible to the bucket's listing.                          *)
(***************************************************************************)
EXTENDS Integers, Sequences, FiniteSets, TLC

\* ------------------------------------------------------------------ bounds

\* Largest number of gallery files picked in one upload.
MaxBatch == 2

\* Largest number of clicks on the Upload button in one behaviour.
MaxUploads == 1

\* ------------------------------------------------------------------ strings

Sep == <<"/">>
Dot == "."

\* Character order of the characters the model uses (code point order).
Alphabet == <<" ", ".", "/", "1", "E", "G", "J", "P", "_",
              "a", "c", "e", "g", "h", "i", "j", "l", "m", "n", "p", "r",
              "s", "t", "x">>

RankOf == [c \in {Alphabet[i] : i \in 1..Len(Alphabet)} |->
              CHOOSE i \in 1..Len(Alphabet) : Alphabet[i] = c]

Rank(c) == RankOf[c]

\* s < t in lexicographic order.
LexLess(s, t) ==
    \E i \in 1..(Len(s) + 1) :
        /\ i <= Len(t)
        /\ \A j \in 1..(i - 1) : s[j] = t[j]
        /\ (i = Len(s) + 1 \/ Rank(s[i]) < Rank(t[i]))

StartsWith(s, p) == Len(p) <= Len(s) /\ SubSeq(s, 1, Len(p)) = p

EndsWith(s, p) == Len(p) <= Len(s) /\ SubSeq(s, Len(s) - Len(p) + 1, Len(s)) = p

\* str.rfind, 1-based: the last index of c in s, 0 when absent.
RFind(s, c) ==
    LET hits == {i \in 1..Len(s) : s[i] = c}
    IN IF hits = {} THEN 0 ELSE CHOOSE i \in hits : \A j \in hits : j <= i

\* str.find, 1-based: the first index of c in s, 0 when absent.
Find(s, c) ==
    LET hits == {i \in 1..Len(s) : s[i] = c}
    IN IF hits = {} THEN 0 ELSE CHOOSE i \in hits : \A j \in hits : i <= j

LowerChar(c) ==
    CASE c = "J" -> "j" [] c = "P" -> "p" [] c = "G" -> "g" [] c = "E" -> "e"
      [] OTHER -> c

\* str.lower
Lower(s) == [i \in 1..Len(s) |-> LowerChar(s[i])]

\* str.strip: leading and trailing blanks removed.
Strip(s) ==
    LET keep == {i \in 1..Len(s) : s[i] # " "}
    IN IF keep = {} THEN <<>>
       ELSE SubSeq(s, CHOOSE i \in keep : \A j \in keep : i <= j,
                      CHOOSE i \in keep : \A j \in keep : j <= i)

\* os.path.splitext: <<root, ext>>.  The extension starts at the last dot
\* after the last separator, unless only dots precede it in the base name.
SplitExt(p) ==
    LET sepIndex == RFind(p, "/")
        dotIndex == RFind(p, Dot)
    IN IF /\ dotIndex > sepIndex
          /\ \E i \in (sepIndex + 1)..(dotIndex - 1) : p[i] # Dot
       THEN <<SubSeq(p, 1, dotIndex - 1), SubSeq(p, dotIndex, Len(p))>>
       ELSE <<p, <<>>>>

Ext_jpg == <<".", "j", "p", "g">>

\* The ascending sequence of a finite set of strings.
RECURSIVE SortNames(_)
SortNames(S) ==
    IF S = {} THEN <<>>
    ELSE LET m == CHOOSE x \in S : \A y \in S : y = x \/ LexLess(x, y)
         IN <<m>> \o SortNames(S \ {m})

\* The elements of s at the indices in keep, in order.
SelectIdx(s, keep) ==
    LET F[i \in 0..Len(s)] ==
            IF i = 0 THEN <<>>
            ELSE IF i \in keep THEN Append(F[i - 1], s[i]) ELSE F[i - 1]
    IN F[Len(s)]

Range(s) == {s[i] : i \in 1..Len(s)}

\* ------------------------------------------------------------------ inputs

\* app.py:61, the shared password when APP_PASS is not set.
PASS == "eggmongol"

\* What a visitor may type as password or pass as ?p=...; "" is "nothing".
PasswordInputs == {"", PASS, "guess"}

\* The browser sessions of the model: one visitor.
Sessions == {"s1"}

\* Text typed into the sidebar name field (before strip).
UserInputs == {<<>>, <<" ", "a", "l">>}

\* Text typed into the album field: nothing, a plain name, a name with a
\* path separator in it.
AlbumInputs == {<<>>, <<"t">>, <<"t", "/", "s">>}

\* File contents: the image format the bytes are in, the picture they show,
\* and the JPEG quality they were written with by this program (0: not
\* written by this program).
Bytes(fmt, pix) == [fmt |-> fmt, pix |-> pix, q |-> 0]

PngFile  == [name |-> <<"x", ".", "p", "n", "g">>,      data |-> Bytes("png", 1)]
HeicFile == [name |-> <<"x", ".", "h", "e", "i", "c">>, data |-> Bytes("heic", 2)]

\* The gallery: a PNG and a HEIC picture with the same base name.
FileInputs == {PngFile, HeicFile}

\* The batches st.file_uploader can hand over: up to MaxBatch files.
Batches == UNION {[1..n -> FileInputs] : n \in 0..MaxBatch}

\* st.camera_input: no picture, or one JPEG snapshot taken at a time stamp.
NoSnap == [taken |-> FALSE, stamp |-> <<>>, data |-> Bytes("none", 0)]
SnapInputs == {NoSnap, [taken |-> TRUE, stamp |-> <<"1">>, data |-> Bytes("jpeg", 4)]}

\* No selection in a select box (there was nothing to select).
NoSel == <<>>

\* ------------------------------------------------------------------ state

VARIABLES
    authed,        \* st.session_state.authed of each session
    store,         \* the bucket: object key -> bytes
    backendUp,     \* whether the storage service answers
    sbConfigured,  \* whether get_sb() returned a client (env vars set)
    heifOK,        \* whether pillow_heif was importable
    batches,       \* how many times the Upload button was clicked so far
    run            \* the last script run: its inputs, what it did and showed

vars == <<authed, store, backendUp, sbConfigured, heifOK, batches, run>>

BUCKET == "photoshare"

\* ------------------------------------------------------------------ bucket

\* from_(BUCKET).upload(path, data, options) of the storage service, whose
\* option "upsert" makes a write to an existing key replace the object.
StorageUpload(st, path, data, options, rejected) ==
    IF ~backendUp THEN [ok |-> FALSE, reason |-> "StoreUnavailable", store |-> st]
    ELSE IF rejected THEN [ok |-> FALSE, reason |-> "ItemFailure", store |-> st]
    ELSE IF path \in DOMAIN st /\ ~options.upsert
         THEN [ok |-> FALSE, reason |-> "Duplicate", store |-> st]
    ELSE [ok |-> TRUE, reason |-> "",
          store |-> [k \in DOMAIN st \cup {path} |-> IF k = path THEN data ELSE st[k]]]

\* from_(BUCKET).download(rel)
StorageDownload(st, rel, rejected) ==
    IF ~backendUp THEN [ok |-> FALSE, reason |-> "StoreUnavailable", data |-> Bytes("none", 0)]
    ELSE IF rejected THEN [ok |-> FALSE, reason |-> "ItemFailure", data |-> Bytes("none", 0)]
    ELSE IF rel \notin DOMAIN st
         THEN [ok |-> FALSE, reason |-> "NotFound", data |-> Bytes("none", 0)]
    ELSE [ok |-> TRUE, reason |-> "", data |-> st[rel]]

\* The tail of key k below prefix.
Below(k, prefix) == SubSeq(k, Len(prefix) + 1, Len(k))

\* from_(BUCKET).list(prefix): the entries one level below prefix, by name.
\* A key that continues past the next "/" shows as a folder entry, which has
\* no object id; an object shows with its id (here: its key).
StorageList(st, prefix) ==
    LET under == {k \in DOMAIN st : StartsWith(k, prefix) /\ Len(k) > Len(prefix)}
        First(k) == LET rest == Below(k, prefix)
                        cut == Find(rest, "/")
                    IN IF cut = 0 THEN rest ELSE SubSeq(rest, 1, cut - 1)
        names == SortNames({First(k) : k \in under})
    IN [i \in 1..Len(names) |->
           [name |-> names[i],
            id |-> IF (prefix \o names[i]) \in DOMAIN st THEN prefix \o names[i] ELSE <<>>]]

\* o.get("id") is None
IsFolder(o) == o.id = <<>>

\* from_(BUCKET).get_public_url(rel)
PublicUrl(rel) == [bucket |-> BUCKET, path |-> rel]

\* The objects of the album user/album: the keys under its prefix.
AlbumKeys(st, user, album) ==
    {k \in DOMAIN st : StartsWith(k, user \o Sep \o album \o Sep)}


\* ------------------------------------------------------------------ password gate

\* app.py:80, the ?p=... query parameter unlocks when it is the password.
QueryUnlocks(qp) == qp # "" /\ qp = PASS

\* app.py:89, the Unlock button compares the typed text with the password.
UnlockCheck(pw) == pw = PASS

\* The gate without its st.stop(): every session goes past it.
PassedGateOpen(s) == TRUE

\* app.py:85-94, the script goes past st.stop() only in an authed session.
PassedGate(s) == authed[s]

\* ------------------------------------------------------------------ upload tab

\* Image.open(...).convert("RGB") succeeds on bytes Pillow can decode; HEIC
\* only when the pillow_heif opener was registered.
Decodable(data) ==
    \/ data.fmt \in {"png", "jpeg"}
    \/ data.fmt = "heic" /\ heifOK

\* rgb.save(buf, format="JPEG", quality=90, optimize=True)
SaveJpeg(data) == [fmt |-> "jpeg", pix |-> data.pix, q |-> 90]

\* The rename done before the conversion is known to have worked: a file
\* Pillow cannot decode keeps its bytes but is renamed all the same.
NormalizeFileRenames(f) ==
    IF Decodable(f.data)
    THEN [name |-> SplitExt(f.name)[1] \o Ext_jpg, data |-> SaveJpeg(f.data)]
    ELSE [name |-> SplitExt(f.name)[1] \o Ext_jpg, data |-> f.data]

\* app.py:136-153, one gallery file becomes one bundle item: its bytes
\* (f.read(), or f.getvalue() when that raises) re-encoded and renamed to
\* .jpg, or kept raw under its own name when Pillow fails.
NormalizeFile(f) ==
    IF Decodable(f.data)
    THEN [name |-> SplitExt(f.name)[1] \o Ext_jpg, data |-> SaveJpeg(f.data)]
    ELSE [name |-> f.name, data |-> f.data]

\* app.py:157, the name of a camera snapshot.
CameraName(stamp) == <<"c", "a", "m", "e", "r", "a", "_">> \o stamp \o Ext_jpg

\* app.py:132-158, the bundle: the gallery files, then the snapshot.
BuildBundle(files, snap) ==
    [i \in 1..Len(files) |-> NormalizeFile(files[i])]
    \o (IF snap.taken THEN <<[name |-> CameraName(snap.stamp), data |-> snap.data]>>
        ELSE <<>>)

\* app.py:166
ContentType(name) ==
    IF EndsWith(Lower(name), Ext_jpg) THEN "image/jpeg" ELSE "application/octet-stream"

\* The options without upsert: the service refuses to write an existing key.
FileOptionsNoUpsert(name) == [contentType |-> ContentType(name), upsert |-> FALSE]

\* app.py:165-168, the options passed with every upload.
FileOptions(name) == [contentType |-> ContentType(name), upsert |-> TRUE]

\* app.py:163
ObjectPath(user, album, name) == user \o Sep \o album \o Sep \o name

\* app.py:126, the Upload button is clickable.
UploadEnabled(user, album, files, snap) ==
    user # <<>> /\ album # <<>> /\ (files # <<>> \/ snap.taken)

NoUpload(st) == [store |-> st, uploaded |-> 0, failed |-> <<>>, puts |-> <<>>,
                 msg |-> "none"]

\* app.py:163-168, the arguments of the upload call of each bundle item.
UploadRequests(user, album, bundle) ==
    [i \in 1..Len(bundle) |->
        [name |-> bundle[i].name, data |-> bundle[i].data,
         path |-> ObjectPath(user, album, bundle[i].name),
         options |-> FileOptions(bundle[i].name)]]

\* What the loop notes of one upload call: its arguments, what the key
\* held before, and how the call ended.
UploadCall(st, req, res) ==
    [path |-> req.path, name |-> req.name, data |-> req.data,
     contentType |-> req.options.contentType,
     prior |-> IF req.path \in DOMAIN st THEN st[req.path] ELSE Bytes("none", 0),
     ok |-> res.ok, reason |-> res.reason]

\* The iteration with `uploaded += 1` ahead of the upload call: an item the
\* service refuses is counted too.
UploadItemCountsFirst(acc, req, refused) ==
    LET res == StorageUpload(acc.store, req.path, req.data, req.options, refused)
    IN IF res.ok
       THEN [acc EXCEPT !.store = res.store, !.uploaded = @ + 1,
                        !.puts = Append(@, UploadCall(acc.store, req, res))]
       ELSE [acc EXCEPT !.uploaded = @ + 1, !.failed = Append(@, req.name),
                        !.puts = Append(@, UploadCall(acc.store, req, res))]

\* app.py:164-171, one iteration of the upload loop.  acc carries the
\* bucket, the `uploaded` counter, the names of the "Failed: ..." messages
\* and the upload calls made so far.  refused: the service refuses the item.
UploadItem(acc, req, refused) ==
    LET res == StorageUpload(acc.store, req.path, req.data, req.options, refused)
    IN IF res.ok
       THEN [acc EXCEPT !.store = res.store, !.uploaded = @ + 1,
                        !.puts = Append(@, UploadCall(acc.store, req, res))]
       ELSE [acc EXCEPT !.failed = Append(@, req.name),
                        !.puts = Append(@, UploadCall(acc.store, req, res))]

\* The loop without its try/except: the first refused item ends the batch.
RECURSIVE UploadLoopBreak(_, _, _, _)
UploadLoopBreak(acc, requests, rejected, i) ==
    IF i > Len(requests) \/ acc.failed # <<>> THEN acc
    ELSE UploadLoopBreak(CHOOSE next \in {UploadItem(acc, requests[i], i \in rejected)} : TRUE,
                         requests, rejected, i + 1)

\* app.py:162-171, the upload loop from item i on.
RECURSIVE UploadLoop(_, _, _, _)
UploadLoop(acc, requests, rejected, i) ==
    IF i > Len(requests) THEN acc
    ELSE UploadLoop(CHOOSE next \in {UploadItem(acc, requests[i], i \in rejected)} : TRUE,
                    requests, rejected, i + 1)

\* app.py:126-172, the handler of the Upload button on the bundle's requests.
UploadHandler(st, requests, rejected) ==
    IF ~sbConfigured
    THEN [NoUpload(st) EXCEPT !.msg = "Supabase not configured"]
    ELSE [UploadLoop(NoUpload(st), requests, rejected, 1) EXCEPT !.msg = "Uploaded"]

\* app.py:177-197, the preview column.  A failing list call is swallowed
\* and shows as an album without images.
Preview(st, user, album) ==
    IF sbConfigured /\ user # <<>> /\ album # <<>>
    THEN LET prefix == user \o Sep \o album \o Sep
             objs == IF backendUp THEN StorageList(st, prefix) ELSE <<>>
             kept == SelectIdx(objs, {i \in 1..Len(objs) : ~StartsWith(objs[i].name, <<Dot>>)})
             thumbs == [i \in 1..Len(kept) |-> PublicUrl(prefix \o kept[i].name)]
         IN [shown |-> IF thumbs # <<>> THEN "thumbs" ELSE "No images yet",
             thumbs |-> thumbs,
             listFailed |-> ~backendUp,
             calls |-> {"list"} \cup (IF kept # <<>> THEN {"get_public_url"} ELSE {})]
    ELSE [shown |-> "Enter your name and album", thumbs |-> <<>>,
          listFailed |-> FALSE, calls |-> {}]

\* ------------------------------------------------------------------ browse tab

\* The names of the folder entries of a listing (app.py:208, 213).
FolderNames(objs) ==
    LET kept == SelectIdx(objs, {i \in 1..Len(objs) : IsFolder(objs[i]) /\ objs[i].name # <<>>})
    IN [i \in 1..Len(kept) |-> kept[i].name]

\* app.py:208, the options of "Select a person"; nothing is listed without
\* a client or when the list call raises.
BrowseUsers(st) ==
    IF sbConfigured /\ backendUp THEN FolderNames(StorageList(st, <<>>)) ELSE <<>>

\* app.py:213, the options of "Select an album".
BrowseAlbums(st, u) ==
    IF u = NoSel THEN <<>> ELSE FolderNames(StorageList(st, u \o Sep))

\* What a select box returns: one of its options.
Choices(options) == IF options = <<>> THEN {NoSel} ELSE Range(options)

\* app.py:217-226, the files of the selected album: folder entries skipped.
AlbumImages(st, u, a) ==
    LET prefix == u \o Sep \o a \o Sep
        files == StorageList(st, prefix)
        kept == SelectIdx(files, {i \in 1..Len(files) : ~IsFolder(files[i])})
    IN [i \in 1..Len(kept) |->
           [name |-> kept[i].name,
            url |-> PublicUrl(prefix \o kept[i].name),
            rel |-> prefix \o kept[i].name]]

\* The ZIP button without its `if images:`.
ExportGuardOpen(images) == TRUE

\* app.py:229, the ZIP button exists only under a non-empty image list.
ExportGuard(images) == images # <<>>

NoZip == [built |-> FALSE, entries |-> <<>>, skipped |-> <<>>, gets |-> <<>>]

\* app.py:233-239, one iteration of the archive loop.  acc carries the
\* entries written, the names of the "Failed to add ..." messages and the
\* download calls made.
ZipItem(acc, st, image, refused) ==
    LET res == StorageDownload(st, image.rel, refused)
        call == [rel |-> image.rel, ok |-> res.ok, reason |-> res.reason]
    IN IF res.ok
       THEN [acc EXCEPT !.entries = Append(@, [name |-> image.name, data |-> res.data]),
                        !.gets = Append(@, call)]
       ELSE [acc EXCEPT !.skipped = Append(@, image.name), !.gets = Append(@, call)]

\* The loop without its try/except: the first failed download ends it.
RECURSIVE ZipLoopStop(_, _, _, _, _)
ZipLoopStop(acc, st, images, rejected, i) ==
    IF i > Len(images) \/ acc.skipped # <<>> THEN acc
    ELSE ZipLoopStop(CHOOSE next \in {ZipItem(acc, st, images[i], i \in rejected)} : TRUE,
                     st, images, rejected, i + 1)

\* app.py:231-246, the archive loop from image i on.
RECURSIVE ZipLoop(_, _, _, _, _)
ZipLoop(acc, st, images, rejected, i) ==
    IF i > Len(images) THEN acc
    ELSE ZipLoop(CHOOSE next \in {ZipItem(acc, st, images[i], i \in rejected)} : TRUE,
                 st, images, rejected, i + 1)

\* app.py:202-248, the Browse tab with selections u and a; zipClick: the
\* ZIP button was clicked, rejected: the downloads the service refuses.
Browse(st, u, a, zipClick, rejected) ==
    LET blank == [stage |-> "", selU |-> NoSel, selA |-> NoSel, listing |-> <<>>,
                  images |-> <<>>, zip |-> NoZip, calls |-> {}]
    IN IF ~sbConfigured THEN [blank EXCEPT !.stage = "Supabase not configured"]
       ELSE IF ~backendUp THEN [blank EXCEPT !.stage = "exception", !.calls = {"list"}]
       ELSE IF u = NoSel THEN [blank EXCEPT !.stage = "No uploads yet", !.calls = {"list"}]
       ELSE IF a = NoSel
            THEN [blank EXCEPT !.stage = "No albums", !.selU = u, !.calls = {"list"}]
       ELSE LET images == AlbumImages(st, u, a)
                zipped == zipClick /\ ExportGuard(images)
            IN [stage |-> "album", selU |-> u, selA |-> a,
                listing |-> StorageList(st, u \o Sep \o a \o Sep),
                images |-> images,
                zip |-> IF zipped
                        THEN ZipLoop([NoZip EXCEPT !.built = TRUE], st, images, rejected, 1)
                        ELSE NoZip,
                calls |-> {"list"}
                          \cup (IF images # <<>> THEN {"get_public_url"} ELSE {})
                          \cup (IF zipped THEN {"download"} ELSE {})]


\* ------------------------------------------------------------------ script runs

NoPreview == [shown |-> "", thumbs |-> <<>>, listFailed |-> FALSE, calls |-> {}]

NoBrowse == [stage |-> "", selU |-> NoSel, selA |-> NoSel, listing |-> <<>>,
             images |-> <<>>, zip |-> NoZip, calls |-> {}]

\* The record of a script step: who ran it, which step, the password it
\* was given and how it ended; the other fields are filled in by the step.
StepRun(s, kind, pw, outcome) ==
    [session |-> s, kind |-> kind, pw |-> pw, outcome |-> outcome,
     user |-> <<>>, album |-> <<>>, files |-> <<>>, snap |-> NoSnap,
     wasEmpty |-> FALSE, upload |-> NoUpload(<<>>),
     preview |-> NoPreview, browse |-> NoBrowse, calls |-> {}]

Init ==
    /\ authed = [s \in Sessions |-> FALSE]
    /\ store = <<>>
    /\ backendUp = TRUE
    /\ sbConfigured \in BOOLEAN
    /\ heifOK \in BOOLEAN
    /\ batches = 0
    /\ run = StepRun("s1", "none", "", "none")

\* A visitor opens the page, possibly with ?p=... in the address
\* (app.py:70-94).
OpenLink(s) ==
    /\ \E qp \in PasswordInputs :
        LET ok == authed[s] \/ QueryUnlocks(qp)
        IN /\ authed' = [authed EXCEPT ![s] = ok]
           /\ run' = StepRun(s, "open", qp, IF ok THEN "done" ELSE "stopped")
    /\ UNCHANGED <<store, backendUp, sbConfigured, heifOK, batches>>

\* The Unlock button of the password form (app.py:85-94).
Unlock(s) ==
    /\ ~PassedGate(s)
    /\ \E pw \in PasswordInputs :
        /\ authed' = [authed EXCEPT ![s] = UnlockCheck(pw)]
        /\ run' = StepRun(s, "unlock", pw, IF UnlockCheck(pw) THEN "rerun" ELSE "stopped")
    /\ UNCHANGED <<store, backendUp, sbConfigured, heifOK, batches>>

\* The items of a bundle that the service may refuse on its own account (a
\* policy, a size limit): any of them, when the service is reached at all.
Refusals(bundle) ==
    IF sbConfigured /\ backendUp THEN SUBSET (1..Len(bundle)) ELSE {{}}

\* The Upload button (app.py:126-172).
Upload(s) ==
    /\ PassedGate(s)
    /\ batches < MaxUploads
    /\ \E files \in Batches, snap \in SnapInputs :
       \E bundle \in {BuildBundle(files, snap)} :
       \E userRaw \in UserInputs, album \in AlbumInputs :
       \E user \in {Strip(userRaw)} :
       /\ UploadEnabled(user, album, files, snap)
       /\ \E requests \in {UploadRequests(user, album, bundle)} :
          \E wasEmpty \in {AlbumKeys(store, user, album) = {}} :
          \E rejected \in Refusals(requests) :
          \E up \in {UploadHandler(store, requests, rejected)} :
              /\ store' = up.store
              /\ run' = [StepRun(s, "upload", "", "done") EXCEPT
                            !.user = user, !.album = album,
                            !.files = files, !.snap = snap,
                            !.wasEmpty = wasEmpty,
                            !.upload = [up EXCEPT !.store = <<>>],
                            !.calls = IF up.puts # <<>> THEN {"upload"} ELSE {}]
    /\ batches' = batches + 1
    /\ UNCHANGED <<authed, backendUp, sbConfigured, heifOK>>

\* The preview column of the Upload tab (app.py:174-197).
ShowPreview(s) ==
    /\ PassedGate(s)
    /\ \E userRaw \in UserInputs, album \in AlbumInputs :
       \E pv \in {Preview(store, Strip(userRaw), album)} :
           run' = [StepRun(s, "preview", "", "done") EXCEPT
                      !.user = Strip(userRaw), !.album = album,
                      !.preview = pv, !.calls = pv.calls]
    /\ UNCHANGED <<authed, store, backendUp, sbConfigured, heifOK, batches>>

\* The Browse tab without a click (app.py:202-226).
ShowBrowse(s) ==
    /\ PassedGate(s)
    /\ \E u \in Choices(BrowseUsers(store)) :
       \E a \in Choices(BrowseAlbums(store, u)) :
       \E br \in {Browse(store, u, a, FALSE, {})} :
           run' = [StepRun(s, "browse", "",
                           IF br.stage = "exception" THEN "exception" ELSE "done")
                     EXCEPT !.browse = br, !.calls = br.calls]
    /\ UNCHANGED <<authed, store, backendUp, sbConfigured, heifOK, batches>>

\* The Browse tab with a click on "Download this album as ZIP"
\* (app.py:202-246).
ExportZip(s) ==
    /\ PassedGate(s)
    /\ \E u \in Choices(BrowseUsers(store)) :
       \E a \in Choices(BrowseAlbums(store, u)) :
       \E images \in {IF a = NoSel THEN <<>> ELSE AlbumImages(store, u, a)} :
       \E rejected \in Refusals(images) :
       \E br \in {Browse(store, u, a, TRUE, rejected)} :
           run' = [StepRun(s, "zip", "",
                           IF br.stage = "exception" THEN "exception" ELSE "done")
                     EXCEPT !.browse = br, !.calls = br.calls]
    /\ UNCHANGED <<authed, store, backendUp, sbConfigured, heifOK, batches>>

\* The storage service becomes unreachable, or reachable again.
BackendToggle ==
    /\ sbConfigured
    /\ backendUp' = ~backendUp
    /\ UNCHANGED <<authed, store, sbConfigured, heifOK, batches, run>>

Next ==
    \/ \E s \in Sessions : OpenLink(s)
    \/ \E s \in Sessions : Unlock(s)
    \/ \E s \in Sessions : Upload(s)
    \/ \E s \in Sessions : ShowPreview(s)
    \/ \E s \in Sessions : ShowBrowse(s)
    \/ \E s \in Sessions : ExportZip(s)
    \/ BackendToggle

Spec == Init /\ [][Next]_vars


\* ------------------------------------------------------------------ properties

Puts == run.upload.puts

Uploaded == run.kind = "upload" /\ run.upload.msg = "Uploaded"

\* The indices of the upload calls that succeeded.
OkPuts == {i \in 1..Len(Puts) : Puts[i].ok}

\* The succeeded upload calls whose key a later succeeded call wrote again.
Overwritten == {i \in OkPuts : \E j \in OkPuts : j > i /\ Puts[j].path = Puts[i].path}

\* The name up to its last dot.
Stem(name) == SubSeq(name, 1, RFind(name, Dot) - 1)

Slashes(k) == Cardinality({i \in 1..Len(k) : k[i] = "/"})

\* C1: a batch of N items makes N upload calls, one per item in order,
\* whatever failed before; the reported count is the number of calls that
\* succeeded, the failure messages name the failed items, one message per
\* failed item, and count + messages = N.
BatchReport ==
    Uploaded =>
        LET bundle == BuildBundle(run.files, run.snap)
            N == Len(run.files) + (IF run.snap.taken THEN 1 ELSE 0)
        IN /\ Len(Puts) = N
           /\ \A i \in 1..N : Puts[i].name = bundle[i].name /\ Puts[i].data = bundle[i].data
           /\ run.upload.uploaded = Cardinality(OkPuts)
           /\ run.upload.failed =
                  SelectIdx([i \in 1..N |-> Puts[i].name], (1..N) \ OkPuts)
           /\ run.upload.uploaded + Len(run.upload.failed) = N

\* A batch whose first item failed and whose second item was stored.
BatchReportWitness ==
    /\ Uploaded
    /\ Len(Puts) >= 2
    /\ ~Puts[1].ok /\ Puts[2].ok
    /\ Puts[2].path \in DOMAIN store

\* C2: a succeeded upload to a key never fails because the key exists;
\* afterwards the key holds the bytes of the last succeeded upload to it, a
\* download returns them, and the album listing has one entry of that name.
OverwriteNoDuplicate ==
    run.kind = "upload" =>
        \A i \in 1..Len(Puts) :
            /\ Puts[i].reason # "Duplicate"
            /\ (i \in OkPuts \ Overwritten) =>
                   LET listing == StorageList(store, run.user \o Sep \o run.album \o Sep)
                   IN /\ Puts[i].path \in DOMAIN store
                      /\ store[Puts[i].path] = Puts[i].data
                      /\ backendUp =>
                             StorageDownload(store, Puts[i].path, FALSE).data = Puts[i].data
                      /\ Cardinality({k \in 1..Len(listing) :
                                          listing[k].name = Puts[i].name}) = 1

\* A succeeded upload to a key that held other bytes before.
OverwriteWitness ==
    /\ run.kind = "upload"
    /\ \E i \in OkPuts \ Overwritten :
           /\ Puts[i].prior.fmt # "none"
           /\ Puts[i].prior # Puts[i].data
           /\ store[Puts[i].path] = Puts[i].data

Zip == run.browse.zip

LeafNames(listing) ==
    LET kept == SelectIdx(listing, {i \in 1..Len(listing) : ~IsFolder(listing[i])})
    IN [i \in 1..Len(kept) |-> kept[i].name]

\* C3: the archive holds, in listing order, one entry per file of the album
\* listing whose download succeeded, under the file's name with the stored
\* bytes; the files whose download failed are left out and reported.
ArchiveMatchesListing ==
    (run.kind = "zip" /\ Zip.built) =>
        LET imgs == run.browse.images
            n == Len(imgs)
            okGets == {i \in 1..n : Zip.gets[i].ok}
        IN /\ [i \in 1..n |-> imgs[i].name] = LeafNames(run.browse.listing)
           /\ Len(Zip.gets) = n
           /\ \A i \in 1..n : Zip.gets[i].rel = imgs[i].rel
           /\ Zip.entries =
                  SelectIdx([i \in 1..n |-> [name |-> imgs[i].name,
                                             data |-> store[imgs[i].rel]]], okGets)
           /\ Zip.skipped = SelectIdx([i \in 1..n |-> imgs[i].name], (1..n) \ okGets)

\* An export whose first download failed and whose second succeeded.
ArchiveWitness ==
    /\ run.kind = "zip" /\ Zip.built
    /\ Len(Zip.gets) >= 2
    /\ ~Zip.gets[1].ok /\ Zip.gets[2].ok
    /\ Len(Zip.entries) >= 1

\* C4: an archive is built only for an album whose listing has a file; a
\* listing without files (empty, or folder entries only) gives no archive.
NoArchiveForEmptyAlbum ==
    Zip.built => (run.browse.stage = "album" /\ LeafNames(run.browse.listing) # <<>>)

\* A click on the ZIP button over an album that lists only a folder.
EmptyAlbumWitness ==
    /\ run.kind = "zip"
    /\ run.browse.stage = "album"
    /\ run.browse.listing # <<>>
    /\ LeafNames(run.browse.listing) = <<>>
    /\ ~Zip.built

\* C5: what the browse listing and the album preview show are files only:
\* every shown entry is an object of the bucket, never a folder entry.
ListingsShowLeavesOnly ==
    /\ \A i \in 1..Len(run.browse.images) : run.browse.images[i].rel \in DOMAIN store
    /\ \A i \in 1..Len(run.preview.thumbs) : run.preview.thumbs[i].path \in DOMAIN store

\* C6: no upload call is made for an owner or album that is empty or holds
\* a "/" or "..", so every key written has the three segments
\* owner/album/filename.
KeysHaveThreeSegments ==
    /\ \A k \in DOMAIN store : Slashes(k) = 2
    /\ (run.kind = "upload" /\ Puts # <<>>) =>
           /\ run.user # <<>> /\ run.album # <<>>
           /\ "/" \notin Range(run.user) /\ "/" \notin Range(run.album)
           /\ \A i \in 1..(Len(run.album) - 1) :
                  ~(run.album[i] = Dot /\ run.album[i + 1] = Dot)

\* C7: every gallery file of a batch is uploaded: re-encoded as JPEG under
\* its name with the extension replaced by .jpg when Pillow can decode it,
\* with its own bytes under its own name when it cannot.
NormalizationBestEffort ==
    Uploaded =>
        /\ Len(Puts) >= Len(run.files)
        /\ \A i \in 1..Len(run.files) :
               IF Decodable(run.files[i].data)
               THEN /\ Puts[i].name = Stem(run.files[i].name) \o Ext_jpg
                    /\ Puts[i].data = SaveJpeg(run.files[i].data)
               ELSE /\ Puts[i].name = run.files[i].name
                    /\ Puts[i].data = run.files[i].data

\* A batch with a file that was converted and a file that could not be,
\* both stored.
NormalizationWitness ==
    /\ Uploaded
    /\ \E i, j \in 1..Len(run.files) :
           /\ Decodable(run.files[i].data) /\ Puts[i].ok
           /\ Puts[i].name # run.files[i].name
           /\ ~Decodable(run.files[j].data) /\ Puts[j].ok
           /\ store[Puts[j].path] = run.files[j].data

\* C8: an unreachable storage service ends the operation at once: the
\* preview does not show it as an empty album, and an upload batch does not
\* go on to the end and report a count.
UnavailableAborts ==
    /\ run.preview.listFailed => run.preview.shown # "No images yet"
    /\ (\E i \in 1..Len(Puts) : Puts[i].reason = "StoreUnavailable") =>
           (Len(Puts) = 1 /\ run.upload.msg # "Uploaded")

\* C9: a step makes a storage call only in an authed session; a session
\* becomes authed only by a step that was given the password; an authed
\* session stays authed.
GateHolds ==
    [][\A s \in Sessions :
          /\ authed[s] => authed'[s]
          /\ (~authed[s] /\ authed'[s]) =>
                 (run'.session = s /\ run'.kind \in {"open", "unlock"} /\ run'.pw = PASS)
          /\ run'.calls # {} => authed'[run'.session]]_vars

\* An upload that reached the bucket, in an authed session.
GateWitness ==
    /\ run.kind = "upload"
    /\ "upload" \in run.calls
    /\ authed[run.session]
    /\ store # <<>>

\* C10 as claimed: after a batch into an album that was empty, the album
\* has as many objects as the batch reported uploaded.
ObjectsEqualSuccessCount ==
    (Uploaded /\ run.wasEmpty) =>
        Cardinality(AlbumKeys(store, run.user, run.album)) = run.upload.uploaded

\* C10 as amended: after a batch into an album that was empty, the album
\* has as many objects as the batch reported uploaded less the succeeded
\* items whose key a later succeeded item of the batch wrote again, and each
\* object holds the bytes of the last succeeded item written to its key.
ObjectsEqualDistinctSucceeded ==
    (Uploaded /\ run.wasEmpty) =>
        /\ Cardinality(AlbumKeys(store, run.user, run.album))
               = run.upload.uploaded - Cardinality(Overwritten)
        /\ \A i \in OkPuts \ Overwritten : store[Puts[i].path] = Puts[i].data

\* A batch into an empty album whose two items were both stored under one
\* name: reported as 2 uploaded, one object, the later item's bytes.
SharedNameWitness ==
    /\ Uploaded /\ run.wasEmpty
    /\ Len(Puts) = 2 /\ OkPuts = {1, 2}
    /\ Puts[1].path = Puts[2].path /\ Puts[1].data # Puts[2].data
    /\ run.upload.uploaded = 2
    /\ Cardinality(AlbumKeys(store, run.user, run.album)) = 1
    /\ store[Puts[2].path] = Puts[2].data

====
